---------------------------- MODULE Spec2Model ----------------------------
(***************************************************************************)
(* A model of grokify/go-h5p: the H5P package writer (CreateZipFile /      *)
(* writeToZip), the package reader (LoadH5PPackage / processZipFile) and   *)
(* the validation functions (QuestionSet.Validate,                         *)
(* MultiChoiceParams.Validate).                                            *)
(*                                                                         *)
(* Strings are sequences of tokens: "H5P.A/library.json" is                *)
(* <<"H5P.", "A", "/", "library.json">>.  The string functions of the Go   *)
(* code (HasPrefix, HasSuffix, Contains, Split, TrimPrefix, filepath.Dir)  *)
(* are computed on these sequences.  The bytes of an archive entry are     *)
(* either the encoding of a JSON document, bytes that are no JSON, or a    *)
(* stored stream that cannot be read back.                                 *)
(***************************************************************************)
EXTENDS Integers, Sequences, FiniteSets, TLC

VARIABLES
    pc,        \* position of the running operation ("idle" between operations)
    pkg,       \* the H5PPackage CreateZipFile is called on
    disk,      \* the file at the output path
    wlib,      \* writeToZip: index of the library being written
    wfiles,    \* writeToZip: keys of lib.Files the range loop has not reached
    written,   \* history: what writeToZip successfully wrote, in order
    failed,    \* history: the entry whose write failed in the current call
    cres,      \* what CreateZipFile returned
    closed,    \* history: the deferred Close calls of CreateZipFile, in order
    lidx,      \* LoadH5PPackage: index into reader.File
    lpkg,      \* LoadH5PPackage: the package under construction
    lres,      \* what LoadH5PPackage returned
    orig,      \* history: the package of the first CreateZipFile call
    archive1,  \* history: the entries of the first archive
    round,     \* 0: nothing written; 1: first archive; 2: archive of the reloaded package
    vin,       \* validation: the payload under validation
    vout,      \* validation: what Validate returned
    field,     \* semantics: the Field the accessors are called on
    opts,      \* semantics: what GetLibraryOptions and GetSelectOptions returned
    builder,   \* builder: the QuestionSet that b.questionSet points to
    calls,     \* history: the setter and adder calls made on the builder
    bres,      \* builder: what the last Build call returned
    builtAt,   \* history: the number of builder calls made before the last Build
    jsonData,  \* what ToJSON returned
    restored   \* what FromJSON returned

pkgVars == <<pc, pkg, disk, wlib, wfiles, written, failed, cres, closed,
             lidx, lpkg, lres, orig, archive1, round>>

valVars == <<vin, vout>>

optVars == <<field, opts>>

bldVars == <<builder, calls, bres, builtAt, jsonData, restored>>

vars == <<pc, pkg, disk, wlib, wfiles, written, failed, cres, closed,
          lidx, lpkg, lres, orig, archive1, round, vin, vout, optVars, bldVars>>

(***************************************************************************)
(* Bounds of the model.                                                    *)
(***************************************************************************)
MaxLibs == 2

MaxEntries == 2

(***************************************************************************)
(* Strings as token sequences.                                             *)
(***************************************************************************)
Slash == <<"/">>

HasPrefix(s, p) ==
    /\ Len(s) >= Len(p)
    /\ SubSeq(s, 1, Len(p)) = p

HasSuffix(s, p) ==
    /\ Len(s) >= Len(p)
    /\ SubSeq(s, Len(s) - Len(p) + 1, Len(s)) = p

ContainsSlash(s) ==
    \E i \in 1..Len(s) : s[i] = "/"

TrimPrefix(s, p) ==
    IF HasPrefix(s, p) THEN SubSeq(s, Len(p) + 1, Len(s)) ELSE s

\* strings.Split(s, "/")[0]: what precedes the first separator.
FirstSegment(s) ==
    IF ContainsSlash(s)
    THEN LET i == CHOOSE k \in 1..Len(s) :
                      /\ s[k] = "/"
                      /\ \A j \in 1..(k - 1) : s[j] # "/"
         IN SubSeq(s, 1, i - 1)
    ELSE s

RECURSIVE StripTrailingSlashes(_)
StripTrailingSlashes(s) ==
    IF s # <<>> /\ s[Len(s)] = "/"
    THEN StripTrailingSlashes(SubSeq(s, 1, Len(s) - 1))
    ELSE s

RECURSIVE CollapseSlashes(_)
CollapseSlashes(s) ==
    IF Len(s) < 2 THEN s
    ELSE IF s[1] = "/" /\ s[2] = "/" THEN CollapseSlashes(Tail(s))
    ELSE <<s[1]>> \o CollapseSlashes(Tail(s))

\* filepath.Clean on paths without "." and ".." elements.
Clean(s) ==
    IF s = <<>> THEN <<".">>
    ELSE LET t == StripTrailingSlashes(CollapseSlashes(s))
         IN IF t = <<>> THEN Slash ELSE t

\* filepath.Dir: all but the last element of the path, cleaned.
Dir(s) ==
    LET idx == {k \in 1..Len(s) : s[k] = "/"}
        i == IF idx = {} THEN 0 ELSE CHOOSE k \in idx : \A j \in idx : j <= k
    IN Clean(SubSeq(s, 1, i))

(***************************************************************************)
(* JSON documents and bytes.                                               *)
(***************************************************************************)
JNull == [t |-> "null"]

JStr(s) == [t |-> "str", v |-> s]

JArr(s) == [t |-> "arr", v |-> s]

JObj(f) == [t |-> "obj", v |-> f]

\* The bytes json.MarshalIndent produces for a document.
JsonBytes(doc) == [kind |-> "json", doc |-> doc]

\* Bytes that are not JSON (a script, a style sheet, a broken file).
RawBytes(n) == [kind |-> "raw", id |-> n]

\* An entry whose stored stream cannot be read back (bad checksum, bad stream).
CorruptBytes == [kind |-> "corrupt"]

\* The bytes of an empty entry.
EmptyBytes == [kind |-> "raw", id |-> 0]

(***************************************************************************)
(* Go values.                                                              *)
(***************************************************************************)
Nil == [t |-> "nil"]

NoError == [t |-> "nil"]

\* An interface{} holding a value whose JSON encoding is doc.
Iface(doc) == [t |-> "iface", doc |-> doc]

PackageDefinition(title, license) ==
    [t |-> "PackageDefinition", Title |-> title, License |-> license]

LibraryDefinition(title, license) ==
    [t |-> "LibraryDefinition", Title |-> title, License |-> license]

Content(params) == [t |-> "Content", Params |-> params]

Library(name, def, sem, files) ==
    [MachineName |-> name, Definition |-> def, Semantics |-> sem, Files |-> files]

NewH5PPackage ==
    [PackageDefinition |-> Nil, Content |-> Nil, Libraries |-> <<>>]


(***************************************************************************)
(* Errors.                                                                 *)
(***************************************************************************)
Error(msg) == [t |-> "error", msg |-> msg]

\* fmt.Errorf("<msg> <name>: %w", cause)
WrapError(msg, name, cause) ==
    [t |-> "error", msg |-> msg, name |-> name, cause |-> cause]

(***************************************************************************)
(* encoding/json on the types of the package.  Of PackageDefinition and    *)
(* LibraryDefinition the model keeps Title (always written) and License    *)
(* (omitempty); of Content it keeps Params (interface{}, omitempty).       *)
(***************************************************************************)
EmptyObject == [k \in {} |-> JNull]

\* json.MarshalIndent of a PackageDefinition or a LibraryDefinition.
MarshalDefinition(d) ==
    JsonBytes(JObj(IF d.License = ""
                   THEN [title |-> JStr(d.Title)]
                   ELSE [title |-> JStr(d.Title), license |-> JStr(d.License)]))

\* json.MarshalIndent of a Content: Params is left out when the interface is nil.
MarshalContent(c) ==
    JsonBytes(JObj(IF c.Params = Nil
                   THEN EmptyObject
                   ELSE [Params |-> c.Params.doc]))

\* json.MarshalIndent of an interface{} value.
MarshalIface(v) ==
    JsonBytes(IF v = Nil THEN JNull ELSE v.doc)

\* A string field of a struct read from object f: absent or null leaves the
\* zero value, a string sets it, anything else is an UnmarshalTypeError.
StringField(f, key) ==
    IF key \notin DOMAIN f THEN [err |-> NoError, val |-> ""]
    ELSE IF f[key].t = "null" THEN [err |-> NoError, val |-> ""]
    ELSE IF f[key].t = "str" THEN [err |-> NoError, val |-> f[key].v]
    ELSE [err |-> Error("json: cannot unmarshal into Go struct field"), val |-> ""]

\* json.Unmarshal(data, &def) for a definition struct: the fields it sets.
UnmarshalFields(data) ==
    IF data.kind # "json"
    THEN [err |-> Error("json: syntax error"), Title |-> "", License |-> ""]
    ELSE IF data.doc.t = "null"
    THEN [err |-> NoError, Title |-> "", License |-> ""]
    ELSE IF data.doc.t # "obj"
    THEN [err |-> Error("json: cannot unmarshal into Go value"), Title |-> "", License |-> ""]
    ELSE LET title == StringField(data.doc.v, "title")
             license == StringField(data.doc.v, "license")
         IN [err |-> IF title.err # NoError THEN title.err ELSE license.err,
             Title |-> title.val, License |-> license.val]

UnmarshalPackageDefinition(data) ==
    LET r == UnmarshalFields(data)
    IN [err |-> r.err, val |-> PackageDefinition(r.Title, r.License)]

UnmarshalLibraryDefinition(data) ==
    LET r == UnmarshalFields(data)
    IN [err |-> r.err, val |-> LibraryDefinition(r.Title, r.License)]

\* json.Unmarshal(data, &semantics) with semantics an interface{}: null
\* leaves the interface nil.
UnmarshalIface(data) ==
    IF data.kind # "json" THEN [err |-> Error("json: syntax error"), val |-> Nil]
    ELSE IF data.doc.t = "null" THEN [err |-> NoError, val |-> Nil]
    ELSE [err |-> NoError, val |-> Iface(data.doc)]

UnmarshalContent(data) ==
    IF data.kind # "json"
    THEN [err |-> Error("json: syntax error"), val |-> Content(Nil)]
    ELSE IF data.doc.t = "null"
    THEN [err |-> NoError, val |-> Content(Nil)]
    ELSE IF data.doc.t # "obj"
    THEN [err |-> Error("json: cannot unmarshal into Go value"), val |-> Content(Nil)]
    ELSE [err |-> NoError,
          val |-> Content(IF "Params" \in DOMAIN data.doc.v
                             /\ data.doc.v["Params"].t # "null"
                          THEN Iface(data.doc.v["Params"])
                          ELSE Nil)]

\* Structural equality of what two Go values encode to.
SameJSON(a, b, marshal(_)) ==
    \/ a = Nil /\ b = Nil
    \/ a # Nil /\ b # Nil /\ marshal(a) = marshal(b)

(***************************************************************************)
(* The package reader.                                                     *)
(***************************************************************************)
H5PJsonName == <<"h5p.json">>

ContentJsonName == <<"content", "/", "content.json">>

LibraryJsonSuffix == <<"/", "library.json">>

SemanticsJsonSuffix == <<"/", "semantics.json">>

LibraryPrefix == <<"H5P.">>

EmptyFiles == [f \in {} |-> EmptyBytes]

isLibraryDirectory(name) == HasPrefix(name, LibraryPrefix)

\* The index of the library findOrCreateLibrary returns, 0 when it has to
\* create one.
FindLibrary(p, machineName) ==
    IF \E i \in 1..Len(p.Libraries) : p.Libraries[i].MachineName = machineName
    THEN CHOOSE i \in 1..Len(p.Libraries) :
             /\ p.Libraries[i].MachineName = machineName
             /\ \A j \in 1..(i - 1) : p.Libraries[j].MachineName # machineName
    ELSE 0

\* Mutant: never looks a library up, always appends a new one.
findOrCreateLibrary_AlwaysCreate(p, machineName) ==
    [pkg |-> [p EXCEPT !.Libraries =
                 Append(@, Library(machineName, Nil, Nil, EmptyFiles))],
     idx |-> Len(p.Libraries) + 1]

\* The package after the call and the index of the library returned.
findOrCreateLibrary(p, machineName) ==
    IF FindLibrary(p, machineName) # 0
    THEN [pkg |-> p, idx |-> FindLibrary(p, machineName)]
    ELSE [pkg |-> [p EXCEPT !.Libraries =
                      Append(@, Library(machineName, Nil, Nil, EmptyFiles))],
          idx |-> Len(p.Libraries) + 1]

\* case file.Name == "h5p.json"
processH5PJson(p, data) ==
    LET r == UnmarshalPackageDefinition(data)
    IN IF r.err # NoError THEN [pkg |-> p, err |-> r.err]
       ELSE [pkg |-> [p EXCEPT !.PackageDefinition = r.val], err |-> NoError]

\* case file.Name == "content/content.json"
processContentJson(p, data) ==
    LET r == UnmarshalContent(data)
    IN IF r.err # NoError THEN [pkg |-> p, err |-> r.err]
       ELSE [pkg |-> [p EXCEPT !.Content = r.val], err |-> NoError]

\* case strings.HasSuffix(file.Name, "/library.json"): the library is found
\* or created before the bytes are parsed.
processLibraryJson(p, name, data) ==
    LET found == findOrCreateLibrary(p, Dir(name))
        r == UnmarshalLibraryDefinition(data)
    IN IF r.err # NoError THEN [pkg |-> found.pkg, err |-> r.err]
       ELSE [pkg |-> [found.pkg EXCEPT !.Libraries[found.idx].Definition = r.val],
             err |-> NoError]

\* Mutant: the error of json.Unmarshal is dropped and the load goes on.
processSemanticsJson_IgnoreError(p, name, data) ==
    LET found == findOrCreateLibrary(p, Dir(name))
        r == UnmarshalIface(data)
    IN [pkg |-> [found.pkg EXCEPT !.Libraries[found.idx].Semantics = r.val],
        err |-> NoError]

\* case strings.HasSuffix(file.Name, "/semantics.json")
processSemanticsJson(p, name, data) ==
    LET found == findOrCreateLibrary(p, Dir(name))
        r == UnmarshalIface(data)
    IN IF r.err # NoError THEN [pkg |-> found.pkg, err |-> r.err]
       ELSE [pkg |-> [found.pkg EXCEPT !.Libraries[found.idx].Semantics = r.val],
             err |-> NoError]

\* lib.Files[relativePath] = data
SetFile(files, path, data) ==
    [f \in DOMAIN files \cup {path} |-> IF f = path THEN data ELSE files[f]]

\* default: a file of a library directory, anything else is dropped.
processLibraryFile(p, name, data) ==
    IF ContainsSlash(name) /\ isLibraryDirectory(FirstSegment(name))
    THEN LET libName == FirstSegment(name)
             found == findOrCreateLibrary(p, libName)
             relativePath == TrimPrefix(name, libName \o Slash)
         IN [pkg |-> [found.pkg EXCEPT !.Libraries[found.idx].Files =
                         SetFile(@, relativePath, data)],
             err |-> NoError]
    ELSE [pkg |-> p, err |-> NoError]

\* processZipFile with the rule for library files tried before the rules for
\* library.json and semantics.json.
processZipFile_FilesFirst(p, file) ==
    IF file.data.kind = "corrupt"
    THEN [pkg |-> p, err |-> Error("zip: read error")]
    ELSE IF file.name = H5PJsonName THEN processH5PJson(p, file.data)
    ELSE IF file.name = ContentJsonName THEN processContentJson(p, file.data)
    ELSE IF ContainsSlash(file.name) /\ isLibraryDirectory(FirstSegment(file.name))
         THEN processLibraryFile(p, file.name, file.data)
    ELSE IF HasSuffix(file.name, LibraryJsonSuffix)
         THEN processLibraryJson(p, file.name, file.data)
    ELSE IF HasSuffix(file.name, SemanticsJsonSuffix)
         THEN processSemanticsJson(p, file.name, file.data)
    ELSE processLibraryFile(p, file.name, file.data)

\* processZipFile: the entry is read whole, then the first matching case is
\* taken.  The result is the package as the call leaves it and its error.
processZipFile(p, file) ==
    IF file.data.kind = "corrupt"
    THEN [pkg |-> p, err |-> Error("zip: read error")]
    ELSE IF file.name = H5PJsonName THEN processH5PJson(p, file.data)
    ELSE IF file.name = ContentJsonName THEN processContentJson(p, file.data)
    ELSE IF HasSuffix(file.name, LibraryJsonSuffix)
         THEN processLibraryJson(p, file.name, file.data)
    ELSE IF HasSuffix(file.name, SemanticsJsonSuffix)
         THEN processSemanticsJson(p, file.name, file.data)
    ELSE processLibraryFile(p, file.name, file.data)

\* The loop of LoadH5PPackage from entry i on, as one function: what
\* LoadH5PPackage returns for an archive that opens.
RECURSIVE LoadFrom(_, _, _)
LoadFrom(p, entries, i) ==
    IF i > Len(entries) THEN [pkg |-> p, err |-> NoError]
    ELSE LET r == processZipFile(p, entries[i])
         IN IF r.err # NoError
            THEN [pkg |-> Nil,
                  err |-> WrapError("failed to process file", entries[i].name, r.err)]
            ELSE LoadFrom(r.pkg, entries, i + 1)

LoadAll(entries) == LoadFrom(NewH5PPackage, entries, 1)

(***************************************************************************)
(* The packages and archives the model draws its inputs from.              *)
(***************************************************************************)
MachineNames == {<<"H5P.", "A">>, <<"Quiz.", "B">>}

JsPath == <<"js", "/", "a.js">>

CssPath == <<"css", "/", "b.css">>

QuestionDoc == JObj([question |-> JStr("Capital of France?")])

SemanticsDoc == JArr(<<JObj([name |-> JStr("question")])>>)

PackageDefs == {PackageDefinition("Geography Quiz", "MIT")}

Contents == {Content(Iface(QuestionDoc))}

\* What a library holds besides its name: nothing at all, a definition
\* only, everything, files only.
LibraryShapes ==
    { [def |-> Nil, sem |-> Nil, files |-> EmptyFiles],
      [def |-> LibraryDefinition("Multiple Choice", ""), sem |-> Nil,
       files |-> EmptyFiles],
      [def |-> LibraryDefinition("Multi Choice", "MIT"),
       sem |-> Iface(SemanticsDoc),
       files |-> (JsPath :> RawBytes(1)) @@ (CssPath :> RawBytes(2))],
      [def |-> Nil, sem |-> Nil, files |-> (JsPath :> RawBytes(3))] }

\* A library whose Files map holds its semantics under "semantics.json",
\* with bytes that are not JSON.
SemanticsPath == <<"semantics.json">>

LibraryWithSemanticsFile ==
    Library(<<"H5P.", "A">>, Nil, Nil, (SemanticsPath :> RawBytes(4)))

Libraries ==
    {Library(n, s.def, s.sem, s.files) : n \in MachineNames, s \in LibraryShapes}
        \cup {LibraryWithSemanticsFile}

\* Entries of archives that were not written by CreateZipFile.
EntryNames ==
    { H5PJsonName, ContentJsonName,
      <<"H5P.", "A">> \o LibraryJsonSuffix,
      <<"H5P.", "A">> \o SemanticsJsonSuffix,
      <<"H5P.", "A">> \o Slash \o JsPath,
      <<"H5P.", "A", "/", "sub">> \o LibraryJsonSuffix,
      <<"Quiz.", "B">> \o LibraryJsonSuffix,
      <<"Quiz.", "B">> \o Slash \o JsPath,
      <<"readme.txt">> }

EntryData ==
    {JsonBytes(JObj([title |-> JStr("T")])), RawBytes(1), CorruptBytes}

EntryPool == {[name |-> n, data |-> d] : n \in EntryNames, d \in EntryData}

Archives == UNION {[1..n -> EntryPool] : n \in 0..MaxEntries}

(***************************************************************************)
(* State.                                                                  *)
(***************************************************************************)
Pending == [t |-> "pending"]

NoFile == [exists |-> FALSE, entries |-> <<>>, finalized |-> FALSE]

Init ==
    /\ pc = "idle"
    /\ pkg = NewH5PPackage
    /\ disk = NoFile
    /\ wlib = 1
    /\ wfiles = {}
    /\ written = <<>>
    /\ failed = Nil
    /\ cres = Pending
    /\ closed = <<>>
    /\ lidx = 1
    /\ lpkg = Nil
    /\ lres = Pending
    /\ orig = Nil
    /\ archive1 = <<>>
    /\ round = 0
    /\ vin = Nil
    /\ vout = Nil
    /\ field = Nil
    /\ opts = Nil
    /\ builder = Nil
    /\ calls = <<>>
    /\ bres = Nil
    /\ builtAt = 0
    /\ jsonData = Nil
    /\ restored = Nil

(***************************************************************************)
(* Building the package.                                                   *)
(***************************************************************************)
Building == pc = "idle" /\ round = 0 /\ disk = NoFile

SetPackageDefinition ==
    /\ Building
    /\ \E def \in PackageDefs : pkg' = [pkg EXCEPT !.PackageDefinition = def]
    /\ UNCHANGED <<pc, disk, wlib, wfiles, written, failed, cres, closed,
                   lidx, lpkg, lres, orig, archive1, round, vin, vout, optVars, bldVars>>

SetContent ==
    /\ Building
    /\ \E content \in Contents : pkg' = [pkg EXCEPT !.Content = content]
    /\ UNCHANGED <<pc, disk, wlib, wfiles, written, failed, cres, closed,
                   lidx, lpkg, lres, orig, archive1, round, vin, vout, optVars, bldVars>>

\* AddLibrary that replaces a library of the same machine name where
\* there is one.
AddLibrary_ReplaceSameName ==
    /\ Building
    /\ Len(pkg.Libraries) < MaxLibs
    /\ \E lib \in Libraries :
           pkg' = IF FindLibrary(pkg, lib.MachineName) # 0
                  THEN [pkg EXCEPT !.Libraries[FindLibrary(pkg, lib.MachineName)] = lib]
                  ELSE [pkg EXCEPT !.Libraries = Append(@, lib)]
    /\ UNCHANGED <<pc, disk, wlib, wfiles, written, failed, cres, closed,
                   lidx, lpkg, lres, orig, archive1, round, vin, vout, optVars, bldVars>>

AddLibrary ==
    /\ Building
    /\ Len(pkg.Libraries) < MaxLibs
    /\ \E lib \in Libraries : pkg' = [pkg EXCEPT !.Libraries = Append(@, lib)]
    /\ UNCHANGED <<pc, disk, wlib, wfiles, written, failed, cres, closed,
                   lidx, lpkg, lres, orig, archive1, round, vin, vout, optVars, bldVars>>

\* An archive from elsewhere is put at the path instead of one written here.
ProvideArchive ==
    /\ Building
    /\ pkg = NewH5PPackage
    /\ \E a \in Archives :
           disk' = [exists |-> TRUE, entries |-> a, finalized |-> TRUE]
    /\ round' = 1
    /\ UNCHANGED <<pc, pkg, wlib, wfiles, written, failed, cres, closed,
                   lidx, lpkg, lres, orig, archive1, vin, vout, optVars, bldVars>>

(***************************************************************************)
(* The package writer.  CreateZipFile creates the file, runs writeToZip    *)
(* and returns; its two deferred Close calls run after the return value    *)
(* is fixed.  Every writeFileToZip call may fail in zipWriter.Create (no   *)
(* entry is added) or in writer.Write (the entry is there, its data is     *)
(* not).                                                                   *)
(***************************************************************************)
WriteOutcomes == {"ok", "create", "write"}

\* The statements of writeToZip before the loop, and of the loop body.
PackageStages == <<"h5p", "content">>

\* Mutant: semantics.json is written before library.json.
LibraryStages_SemanticsFirst == <<"semantics", "library", "files">>

LibraryStages == <<"library", "semantics", "files">>

StageAfter(stages, s) ==
    LET i == CHOOSE k \in 1..Len(stages) : stages[k] = s
    IN IF i < Len(stages) THEN stages[i + 1] ELSE "range"

\* Mutant: the error of writeFileToZip is dropped and writeToZip goes on.
OnResult_Continue(outcome, next) == next

\* if err := writeFileToZip(...); err != nil { return err }
OnResult(outcome, next) ==
    IF outcome = "ok" THEN next ELSE "closeZip"

\* The error writeFileToZip returns.
writeFileToZipError(outcome, filename) ==
    IF outcome = "create"
    THEN WrapError("failed to create zip entry for", filename, Error("zip: create"))
    ELSE WrapError("failed to write data to", filename, Error("zip: write"))

\* CreateZipFile's wrapping of the error of writeToZip.
CreateZipFileError(cause) ==
    [t |-> "error", msg |-> "failed to write package to zip", cause |-> cause]

\* One writeFileToZip call of writeToZip and the check of its error; lib and
\* kind record which statement wrote the entry.
WriteFileToZip(filename, data, lib, kind, next) ==
    \E outcome \in WriteOutcomes :
        /\ disk' = IF outcome = "create" THEN disk
                   ELSE [disk EXCEPT !.entries =
                            Append(@, [name |-> filename,
                                       data |-> IF outcome = "ok" THEN data
                                                ELSE EmptyBytes])]
        /\ written' = IF outcome = "ok"
                      THEN Append(written, [name |-> filename, lib |-> lib, kind |-> kind])
                      ELSE written
        /\ failed' = IF outcome = "ok" THEN failed
                     ELSE [t |-> "failed", name |-> filename,
                           entries |-> disk'.entries]
        /\ cres' = IF outcome = "ok" THEN cres
                   ELSE CreateZipFileError(writeFileToZipError(outcome, filename))
        /\ pc' = OnResult(outcome, next)

\* os.Create and zip.NewWriter for package p.
StartCreate(p) ==
    /\ written' = <<>>
    /\ failed' = Nil
    /\ closed' = <<>>
    /\ wlib' = 1
    /\ wfiles' = {}
    /\ \E created \in BOOLEAN :
           IF created
           THEN /\ disk' = [exists |-> TRUE, entries |-> <<>>, finalized |-> FALSE]
                /\ cres' = Pending
                /\ pc' = PackageStages[1]
           ELSE /\ disk' = disk
                /\ cres' = Error("failed to create zip file")
                /\ pc' = "idle"

CreateZipFile ==
    /\ pc = "idle"
    /\ round = 0
    /\ StartCreate(pkg)
    /\ orig' = pkg
    /\ round' = 1
    /\ UNCHANGED <<pkg, lidx, lpkg, lres, archive1, vin, vout, optVars, bldVars>>

\* The loaded package is saved again at the same path.
CreateZipFileAgain ==
    /\ pc = "idle"
    /\ round = 1
    /\ orig # Nil
    /\ cres = NoError
    /\ lres # Pending
    /\ lres.err = NoError
    /\ pkg' = lres.pkg
    /\ archive1' = disk.entries
    /\ StartCreate(lres.pkg)
    /\ round' = 2
    /\ UNCHANGED <<lidx, lpkg, lres, orig, vin, vout, optVars, bldVars>>

WriteH5PJson ==
    /\ pc = "h5p"
    /\ IF pkg.PackageDefinition # Nil
       THEN WriteFileToZip(H5PJsonName, MarshalDefinition(pkg.PackageDefinition),
                           0, "h5p", StageAfter(PackageStages, "h5p"))
       ELSE /\ pc' = StageAfter(PackageStages, "h5p")
            /\ UNCHANGED <<disk, written, failed, cres>>
    /\ UNCHANGED <<pkg, wlib, wfiles, closed, lidx, lpkg, lres, orig,
                   archive1, round, vin, vout, optVars, bldVars>>

WriteContentJson ==
    /\ pc = "content"
    /\ IF pkg.Content # Nil
       THEN WriteFileToZip(ContentJsonName, MarshalContent(pkg.Content),
                           0, "content", StageAfter(PackageStages, "content"))
       ELSE /\ pc' = StageAfter(PackageStages, "content")
            /\ UNCHANGED <<disk, written, failed, cres>>
    /\ UNCHANGED <<pkg, wlib, wfiles, closed, lidx, lpkg, lres, orig,
                   archive1, round, vin, vout, optVars, bldVars>>

\* for _, lib := range pkg.Libraries: the next library, or return nil.
RangeLibraries ==
    /\ pc = "range"
    /\ IF wlib <= Len(pkg.Libraries)
       THEN /\ pc' = LibraryStages[1]
            /\ wfiles' = DOMAIN pkg.Libraries[wlib].Files
            /\ cres' = cres
       ELSE /\ pc' = "closeZip"
            /\ wfiles' = wfiles
            /\ cres' = NoError
    /\ UNCHANGED <<pkg, disk, wlib, written, failed, closed, lidx, lpkg, lres,
                   orig, archive1, round, vin, vout, optVars, bldVars>>

\* The library index once the statement at stage s is done.
LibAfter(s) ==
    IF StageAfter(LibraryStages, s) = "range" THEN wlib + 1 ELSE wlib

WriteLibraryJson ==
    /\ pc = "library"
    /\ LET lib == pkg.Libraries[wlib]
       IN IF lib.Definition # Nil
          THEN WriteFileToZip(lib.MachineName \o LibraryJsonSuffix,
                              MarshalDefinition(lib.Definition), wlib, "library",
                              StageAfter(LibraryStages, "library"))
          ELSE /\ pc' = StageAfter(LibraryStages, "library")
               /\ UNCHANGED <<disk, written, failed, cres>>
    /\ wlib' = LibAfter("library")
    /\ UNCHANGED <<pkg, wfiles, closed, lidx, lpkg, lres, orig, archive1,
                   round, vin, vout, optVars, bldVars>>

WriteSemanticsJson ==
    /\ pc = "semantics"
    /\ LET lib == pkg.Libraries[wlib]
       IN IF lib.Semantics # Nil
          THEN WriteFileToZip(lib.MachineName \o SemanticsJsonSuffix,
                              MarshalIface(lib.Semantics), wlib, "semantics",
                              StageAfter(LibraryStages, "semantics"))
          ELSE /\ pc' = StageAfter(LibraryStages, "semantics")
               /\ UNCHANGED <<disk, written, failed, cres>>
    /\ wlib' = LibAfter("semantics")
    /\ UNCHANGED <<pkg, wfiles, closed, lidx, lpkg, lres, orig, archive1,
                   round, vin, vout, optVars, bldVars>>

\* for filePath, fileData := range lib.Files: the keys come in any order.
WriteLibraryFile ==
    /\ pc = "files"
    /\ wfiles # {}
    /\ \E filePath \in wfiles :
           LET lib == pkg.Libraries[wlib]
           IN /\ WriteFileToZip(lib.MachineName \o Slash \o filePath,
                                lib.Files[filePath], wlib, "file", "files")
              /\ wfiles' = wfiles \ {filePath}
    /\ UNCHANGED <<pkg, wlib, closed, lidx, lpkg, lres, orig, archive1,
                   round, vin, vout, optVars, bldVars>>

\* The range over lib.Files is exhausted.
FilesDone ==
    /\ pc = "files"
    /\ wfiles = {}
    /\ pc' = StageAfter(LibraryStages, "files")
    /\ wlib' = LibAfter("files")
    /\ UNCHANGED <<pkg, disk, wfiles, written, failed, cres, closed, lidx,
                   lpkg, lres, orig, archive1, round, vin, vout, optVars, bldVars>>

\* The deferred zipWriter.Close() when its error becomes what CreateZipFile
\* returns.
ZipWriterClose_ReturnsError ==
    /\ pc = "closeZip"
    /\ \E ok \in BOOLEAN :
           /\ disk' = [disk EXCEPT !.finalized = ok]
           /\ cres' = IF ok THEN cres ELSE Error("zip: close")
    /\ closed' = Append(closed, "zipWriter")
    /\ pc' = "closeFile"
    /\ UNCHANGED <<pkg, wlib, wfiles, written, failed, lidx, lpkg, lres,
                   orig, archive1, round, vin, vout, optVars, bldVars>>

\* defer zipWriter.Close(): writes the central directory; its error is dropped.
ZipWriterClose ==
    /\ pc = "closeZip"
    /\ \E ok \in BOOLEAN : disk' = [disk EXCEPT !.finalized = ok]
    /\ closed' = Append(closed, "zipWriter")
    /\ pc' = "closeFile"
    /\ UNCHANGED <<pkg, wlib, wfiles, written, failed, cres, lidx, lpkg, lres,
                   orig, archive1, round, vin, vout, optVars, bldVars>>

\* defer file.Close(): its error is dropped; CreateZipFile has returned.
FileClose ==
    /\ pc = "closeFile"
    /\ closed' = Append(closed, "file")
    /\ pc' = "idle"
    /\ UNCHANGED <<pkg, disk, wlib, wfiles, written, failed, cres, lidx, lpkg,
                   lres, orig, archive1, round, vin, vout, optVars, bldVars>>

(***************************************************************************)
(* LoadH5PPackage.                                                         *)
(***************************************************************************)
OpenError == [pkg |-> Nil, err |-> Error("failed to open H5P file")]

\* zip.OpenReader and NewH5PPackage.
LoadH5PPackage ==
    /\ pc = "idle"
    /\ round = 1
    /\ lres = Pending
    /\ IF disk.exists /\ disk.finalized
       THEN /\ pc' = "load"
            /\ lpkg' = NewH5PPackage
            /\ lidx' = 1
            /\ lres' = lres
       ELSE /\ pc' = "idle"
            /\ lres' = OpenError
            /\ UNCHANGED <<lpkg, lidx>>
    /\ UNCHANGED <<pkg, disk, wlib, wfiles, written, failed, cres, closed,
                   orig, archive1, round, vin, vout, optVars, bldVars>>

\* One iteration of for _, file := range reader.File.
ProcessZipFile ==
    /\ pc = "load"
    /\ lidx <= Len(disk.entries)
    /\ LET file == disk.entries[lidx]
           r == processZipFile(lpkg, file)
       IN /\ lpkg' = r.pkg
          /\ IF r.err # NoError
             THEN /\ lres' = [pkg |-> Nil,
                              err |-> WrapError("failed to process file", file.name, r.err)]
                  /\ pc' = "idle"
                  /\ lidx' = lidx
             ELSE /\ lres' = lres
                  /\ pc' = pc
                  /\ lidx' = lidx + 1
    /\ UNCHANGED <<pkg, disk, wlib, wfiles, written, failed, cres, closed,
                   orig, archive1, round, vin, vout, optVars, bldVars>>

\* return pkg, nil
LoadReturn ==
    /\ pc = "load"
    /\ lidx > Len(disk.entries)
    /\ lres' = [pkg |-> lpkg, err |-> NoError]
    /\ pc' = "idle"
    /\ UNCHANGED <<pkg, disk, wlib, wfiles, written, failed, cres, closed,
                   lidx, lpkg, orig, archive1, round, vin, vout, optVars, bldVars>>

Next ==
    \/ SetPackageDefinition
    \/ SetContent
    \/ AddLibrary
    \/ ProvideArchive
    \/ CreateZipFile
    \/ CreateZipFileAgain
    \/ WriteH5PJson
    \/ WriteContentJson
    \/ RangeLibraries
    \/ WriteLibraryJson
    \/ WriteSemanticsJson
    \/ WriteLibraryFile
    \/ FilesDone
    \/ ZipWriterClose
    \/ FileClose
    \/ LoadH5PPackage
    \/ ProcessZipFile
    \/ LoadReturn

Spec == Init /\ [][Next]_vars

(***************************************************************************)
(* Validation.  Both Validate functions return a single error value: the   *)
(* error of the first check that fails, or nil.                            *)
(***************************************************************************)
MaxQuestions == 2

MaxFeedback == 2

MaxAnswers == 2

MaxPassPercentage == 100

PassPercentages == (-2..(MaxPassPercentage + 2)) \cup {150}

SeqsUpTo(S, n) == UNION {[1..k -> S] : k \in 0..n}

ErrNoQuestions == Error("question set must have at least one question")

ErrPassPercentage == Error("pass percentage must be between 0 and 100")

ErrFeedbackRange(i) ==
    [t |-> "error",
     msg |-> "feedback range 'from' cannot be greater than 'to' at index",
     index |-> i]

ErrQuestionText == Error("question text is required")

ErrNoAnswers == Error("at least one answer is required")

ErrAnswerText == Error("answer text cannot be empty")

ErrNoCorrect == Error("at least one answer must be marked as correct")

ErrQuestionType == Error("invalid question type")

\* The greatest index of a feedback range with from > to, 0 when there is
\* none: the loop when it keeps the last failure instead of returning.
FirstBadRange_Last(ranges) ==
    IF \E i \in 1..Len(ranges) : ranges[i].From > ranges[i].To
    THEN CHOOSE i \in 1..Len(ranges) :
             /\ ranges[i].From > ranges[i].To
             /\ \A j \in (i + 1)..Len(ranges) : ranges[j].From <= ranges[j].To
    ELSE 0

\* The least index of a feedback range with from > to, 0 when there is none
\* (indices as in Go, from 0, are this minus 1).
FirstBadRange(ranges) ==
    IF \E i \in 1..Len(ranges) : ranges[i].From > ranges[i].To
    THEN CHOOSE i \in 1..Len(ranges) :
             /\ ranges[i].From > ranges[i].To
             /\ \A j \in 1..(i - 1) : ranges[j].From <= ranges[j].To
    ELSE 0

\* QuestionSet.Validate with the upper bound of the pass percentage excluded.
QuestionSetValidate_ExclusiveBound(qs) ==
    IF Len(qs.Questions) = 0 THEN ErrNoQuestions
    ELSE IF qs.PassPercentage < 0 \/ qs.PassPercentage >= MaxPassPercentage
    THEN ErrPassPercentage
    ELSE IF FirstBadRange(qs.OverallFeedback) # 0
    THEN ErrFeedbackRange(FirstBadRange(qs.OverallFeedback) - 1)
    ELSE NoError

\* QuestionSet.Validate
QuestionSetValidate(qs) ==
    IF Len(qs.Questions) = 0 THEN ErrNoQuestions
    ELSE IF qs.PassPercentage < 0 \/ qs.PassPercentage > MaxPassPercentage
    THEN ErrPassPercentage
    ELSE IF FirstBadRange(qs.OverallFeedback) # 0
    THEN ErrFeedbackRange(FirstBadRange(qs.OverallFeedback) - 1)
    ELSE NoError

ValidTypes == {"auto", "multi", "single"}

\* The count of the loop when it counts every answer.
CorrectCount_CountsAll(answers) == Len(answers)

\* The loop over p.Answers: an empty text returns at once, otherwise the
\* correct answers are counted.
CorrectCount(answers) ==
    Cardinality({i \in 1..Len(answers) : answers[i].Correct})

\* MultiChoiceParams.Validate without the check of the pass percentage.
MultiChoiceValidate_SkipPassPercentage(p) ==
    IF p.Question = "" THEN ErrQuestionText
    ELSE IF Len(p.Answers) < 1 THEN ErrNoAnswers
    ELSE IF \E i \in 1..Len(p.Answers) : p.Answers[i].Text = "" THEN ErrAnswerText
    ELSE IF CorrectCount(p.Answers) = 0 THEN ErrNoCorrect
    ELSE IF p.Behaviour # Nil /\ p.Behaviour.Type # ""
            /\ p.Behaviour.Type \notin ValidTypes
    THEN ErrQuestionType
    ELSE NoError

\* MultiChoiceParams.Validate
MultiChoiceValidate(p) ==
    IF p.Question = "" THEN ErrQuestionText
    ELSE IF Len(p.Answers) < 1 THEN ErrNoAnswers
    ELSE IF \E i \in 1..Len(p.Answers) : p.Answers[i].Text = "" THEN ErrAnswerText
    ELSE IF CorrectCount(p.Answers) = 0 THEN ErrNoCorrect
    ELSE IF p.Behaviour # Nil /\ p.Behaviour.Type # ""
            /\ p.Behaviour.Type \notin ValidTypes
    THEN ErrQuestionType
    ELSE IF p.Behaviour # Nil
            /\ (p.Behaviour.PassPercentage < 0
                \/ p.Behaviour.PassPercentage > MaxPassPercentage)
    THEN ErrPassPercentage
    ELSE NoError

\* The payloads validation is run on.
AQuestion == [Library |-> "H5P.MultiChoice 1.16", Params |-> Nil]

FeedbackRanges == [From : {0, 50}, To : {0, 50}]

QuestionSets ==
    [t : {"QuestionSet"},
     Questions : SeqsUpTo({AQuestion}, MaxQuestions),
     PassPercentage : PassPercentages,
     OverallFeedback : SeqsUpTo(FeedbackRanges, MaxFeedback)]

AnswerOptions == [Text : {"", "Paris"}, Correct : BOOLEAN]

Behaviours ==
    {Nil} \cup [t : {"Behaviour"}, Type : {"", "single", "essay"},
                PassPercentage : {-1, 0, MaxPassPercentage,
                                  MaxPassPercentage + 1, 150}]

\* schemas.OverallFeedback: a nil pointer, or the struct holding the ranges.
OverallFeedbacks ==
    {Nil} \cup [t : {"OverallFeedback"},
                OverallFeedback : SeqsUpTo(FeedbackRanges, MaxFeedback)]

MultiChoiceParamsSet ==
    [t : {"MultiChoiceParams"},
     Question : {"", "Capital of France?"},
     Answers : SeqsUpTo(AnswerOptions, MaxAnswers),
     OverallFeedback : OverallFeedbacks,
     Behaviour : Behaviours]

InitValidate ==
    /\ pc = "idle"
    /\ pkg = NewH5PPackage
    /\ disk = NoFile
    /\ wlib = 1
    /\ wfiles = {}
    /\ written = <<>>
    /\ failed = Nil
    /\ cres = Pending
    /\ closed = <<>>
    /\ lidx = 1
    /\ lpkg = Nil
    /\ lres = Pending
    /\ orig = Nil
    /\ archive1 = <<>>
    /\ round = 0
    /\ vin \in QuestionSets \cup MultiChoiceParamsSet
    /\ vout = Pending
    /\ field = Nil
    /\ opts = Nil
    /\ builder = Nil
    /\ calls = <<>>
    /\ bres = Nil
    /\ builtAt = 0
    /\ jsonData = Nil
    /\ restored = Nil

ValidateQuestionSet ==
    /\ vout = Pending
    /\ vin.t = "QuestionSet"
    /\ vout' = QuestionSetValidate(vin)
    /\ UNCHANGED <<pkgVars, vin, optVars, bldVars>>

ValidateMultiChoiceParams ==
    /\ vout = Pending
    /\ vin.t = "MultiChoiceParams"
    /\ vout' = MultiChoiceValidate(vin)
    /\ UNCHANGED <<pkgVars, vin, optVars, bldVars>>

NextValidate ==
    \/ ValidateQuestionSet
    \/ ValidateMultiChoiceParams

SpecValidate == InitValidate /\ [][NextValidate]_vars

(***************************************************************************)
(* Claims about the package writer and reader.                             *)
(***************************************************************************)
\* LoadH5PPackage has returned for the archive now at the path.
Loaded == round = 1 /\ pc = "idle" /\ lres # Pending

\* The archive at the path opens.
Opens == disk.exists /\ disk.finalized

\* The first CreateZipFile call returned nil and its archive was finalized.
WroteFirst == orig # Nil /\ cres = NoError /\ Opens

SameLibrary(a, b) ==
    /\ a.MachineName = b.MachineName
    /\ SameJSON(a.Definition, b.Definition, MarshalDefinition)
    /\ SameJSON(a.Semantics, b.Semantics, MarshalIface)
    /\ a.Files = b.Files

SamePackage(a, b) ==
    /\ SameJSON(a.PackageDefinition, b.PackageDefinition, MarshalDefinition)
    /\ SameJSON(a.Content, b.Content, MarshalContent)
    /\ Len(a.Libraries) = Len(b.Libraries)
    /\ \A i \in 1..Len(a.Libraries) : SameLibrary(a.Libraries[i], b.Libraries[i])

\* C1: a package with content and at least one library that CreateZipFile
\* wrote is loaded back with the same metadata, the same content and the
\* same libraries: names, definitions, semantics, file paths and bytes.
C1_RoundTrip ==
    (Loaded /\ WroteFirst /\ orig.Content # Nil /\ Len(orig.Libraries) >= 1)
        => /\ lres.err = NoError
           /\ SamePackage(orig, lres.pkg)

\* C2: after a successful load every library's machine name starts with
\* "H5P." and is the first path segment of an entry of the archive.
C2_LibraryNamesFollowConvention ==
    (Loaded /\ lres.err = NoError)
        => \A i \in 1..Len(lres.pkg.Libraries) :
               LET name == lres.pkg.Libraries[i].MachineName
               IN /\ isLibraryDirectory(name)
                  /\ \E k \in 1..Len(disk.entries) :
                         FirstSegment(disk.entries[k].name) = name

\* An entry with readable bytes under a top-level directory that does not
\* follow the library naming convention (content/content.json has its own rule).
ForeignEntry(e) ==
    /\ ContainsSlash(e.name)
    /\ ~isLibraryDirectory(FirstSegment(e.name))
    /\ e.name # ContentJsonName
    /\ e.data.kind # "corrupt"

RemoveAt(s, i) == SubSeq(s, 1, i - 1) \o SubSeq(s, i + 1, Len(s))

\* C3: an entry under a top-level directory that does not follow the
\* convention is ignored: LoadH5PPackage returns what it returns for the
\* archive without the entry.
C3_ForeignEntriesIgnored ==
    (Loaded /\ Opens)
        => \A i \in 1..Len(disk.entries) :
               ForeignEntry(disk.entries[i])
                   => lres = LoadAll(RemoveAt(disk.entries, i))

\* The library an entry refers to, <<>> when it refers to none.
ReferencedLibrary(e) ==
    IF e.name = H5PJsonName \/ e.name = ContentJsonName THEN <<>>
    ELSE IF HasSuffix(e.name, LibraryJsonSuffix) \/ HasSuffix(e.name, SemanticsJsonSuffix)
    THEN Dir(e.name)
    ELSE IF ContainsSlash(e.name) /\ isLibraryDirectory(FirstSegment(e.name))
    THEN FirstSegment(e.name)
    ELSE <<>>

\* The entries the loop of LoadH5PPackage has processed.
Processed == SubSeq(disk.entries, 1, lidx - 1)

FirstReference(name) ==
    CHOOSE k \in 1..Len(Processed) :
        /\ ReferencedLibrary(Processed[k]) = name
        /\ \A j \in 1..(k - 1) : ReferencedLibrary(Processed[j]) # name

IsFileEntry(e) ==
    /\ ReferencedLibrary(e) # <<>>
    /\ ~HasSuffix(e.name, LibraryJsonSuffix)
    /\ ~HasSuffix(e.name, SemanticsJsonSuffix)

\* Library lib holds what entry k brought, unless a later processed entry
\* of the same name replaced it.
HoldsEntry(lib, k) ==
    LET e == Processed[k]
        last == \A j \in (k + 1)..Len(Processed) : Processed[j].name # e.name
    IN last =>
          /\ HasSuffix(e.name, LibraryJsonSuffix)
                => lib.Definition = UnmarshalLibraryDefinition(e.data).val
          /\ HasSuffix(e.name, SemanticsJsonSuffix)
                => lib.Semantics = UnmarshalIface(e.data).val
          /\ IsFileEntry(e)
                => LET path == TrimPrefix(e.name, lib.MachineName \o Slash)
                   IN path \in DOMAIN lib.Files /\ lib.Files[path] = e.data

MalformedJsonEntry(e) ==
    /\ \/ e.name = H5PJsonName
       \/ e.name = ContentJsonName
       \/ HasSuffix(e.name, LibraryJsonSuffix)
       \/ HasSuffix(e.name, SemanticsJsonSuffix)
    /\ e.data.kind = "raw"

\* C5: when the archive holds malformed JSON in h5p.json, content/content.json,
\* or an entry ending in /library.json or /semantics.json, LoadH5PPackage
\* stops at the first entry that fails (no later than the malformed one),
\* returns no package and an error naming that entry.
C5_MalformedJsonIsFatal ==
    (Loaded /\ Opens)
        => \A k \in 1..Len(disk.entries) :
               MalformedJsonEntry(disk.entries[k])
                   => /\ lres.pkg = Nil
                      /\ lres.err # NoError
                      /\ lidx <= k
                      /\ lres.err.name = disk.entries[lidx].name
                      /\ lidx = k => lres.err.cause = Error("json: syntax error")

\* C5 witness: the second entry is malformed after the first was processed
\* into the package under construction.
C5_Witness ==
    /\ Loaded
    /\ Opens
    /\ Len(disk.entries) >= 2
    /\ MalformedJsonEntry(disk.entries[2])
    /\ lidx = 2
    /\ lpkg.PackageDefinition # Nil
    /\ lres.pkg = Nil

\* C6: when CreateZipFile returns an error after an entry write failed, the
\* output path holds no archive that LoadH5PPackage accepts.
C6_NoPartialArchive ==
    (pc = "idle" /\ failed # Nil /\ cres # Pending /\ cres # NoError)
        => ~(Opens /\ LoadAll(disk.entries).err = NoError)

\* The positions inside writeToZip.
WritingStages == {"h5p", "content", "range", "library", "semantics", "files"}

\* C7: once an entry write has failed nothing more is written to the
\* archive, writeToZip has returned, and CreateZipFile returns an error
\* that wraps the error of the failed entry.
C7_WriteFailureAborts ==
    failed # Nil
        => /\ disk.entries = failed.entries
           /\ pc \notin WritingStages
           /\ cres # Pending
           /\ cres # NoError
           /\ cres.msg = "failed to write package to zip"
           /\ cres.cause.name = failed.name

\* C7 witness: CreateZipFile returned after a failure that left entries of
\* the package unwritten.
C7_Witness ==
    /\ pc = "idle"
    /\ failed # Nil
    /\ Len(written) >= 2
    /\ wlib < Len(pkg.Libraries)

KindRank(kind) ==
    CASE kind = "h5p" -> 1
      [] kind = "content" -> 2
      [] kind = "library" -> 3
      [] kind = "semantics" -> 4
      [] kind = "file" -> 5

\* The path the entry of a kind has for library lib of the package.
HasPathOfKind(w) ==
    CASE w.kind = "h5p" -> w.name = H5PJsonName
      [] w.kind = "content" -> w.name = ContentJsonName
      [] w.kind = "library" ->
             w.name = pkg.Libraries[w.lib].MachineName \o LibraryJsonSuffix
      [] w.kind = "semantics" ->
             w.name = pkg.Libraries[w.lib].MachineName \o SemanticsJsonSuffix
      [] w.kind = "file" ->
             \E f \in DOMAIN pkg.Libraries[w.lib].Files :
                 w.name = pkg.Libraries[w.lib].MachineName \o Slash \o f

\* C8: the entries are written in the order h5p.json, content/content.json,
\* then library by library in the order of pkg.Libraries, and within a
\* library library.json, then semantics.json, then its files.
C8_WriteOrder ==
    /\ \A i \in 1..Len(written) :
           /\ i <= Len(disk.entries)
           /\ disk.entries[i].name = written[i].name
           /\ HasPathOfKind(written[i])
    /\ \A i, j \in 1..Len(written) :
           i < j => \/ written[i].lib < written[j].lib
                    \/ /\ written[i].lib = written[j].lib
                       /\ \/ KindRank(written[i].kind) < KindRank(written[j].kind)
                          \/ written[i].kind = "file" /\ written[j].kind = "file"

\* C8 witness: a package with metadata, content and two libraries, each
\* with definition, semantics and files, was written completely.
C8_Witness ==
    /\ pc = "idle"
    /\ round = 1
    /\ cres = NoError
    /\ Len(pkg.Libraries) = 2
    /\ Len(written) = 10

EntrySet(entries) == {entries[i] : i \in 1..Len(entries)}

\* C9: writing the package loaded from a written archive gives an archive
\* with the same entry paths and the same contents as the first one.
C9_RewriteIdempotent ==
    (round = 2 /\ pc = "idle" /\ cres = NoError /\ Opens)
        => EntrySet(disk.entries) = EntrySet(archive1)

(***************************************************************************)
(* Claims about validation.                                                *)
(***************************************************************************)
\* The message of a rule when the payload breaks it.
Broken(cond, err) == IF cond THEN {err.msg} ELSE {}

\* The rules a question set breaks.
BrokenQuestionSetRules(qs) ==
    Broken(Len(qs.Questions) = 0, ErrNoQuestions)
    \cup Broken(qs.PassPercentage < 0 \/ qs.PassPercentage > MaxPassPercentage,
                ErrPassPercentage)
    \cup Broken(\E i \in 1..Len(qs.OverallFeedback) :
                    qs.OverallFeedback[i].From > qs.OverallFeedback[i].To,
                ErrFeedbackRange(0))

\* The rules a multiple-choice payload breaks.
BrokenMultiChoiceRules(p) ==
    Broken(p.Question = "", ErrQuestionText)
    \cup Broken(Len(p.Answers) < 1, ErrNoAnswers)
    \cup Broken(\E i \in 1..Len(p.Answers) : p.Answers[i].Text = "", ErrAnswerText)
    \cup Broken(\A i \in 1..Len(p.Answers) : ~p.Answers[i].Correct, ErrNoCorrect)
    \cup Broken(p.Behaviour # Nil /\ p.Behaviour.Type \notin ValidTypes \cup {""},
                ErrQuestionType)
    \cup Broken(p.Behaviour # Nil
                    /\ (p.Behaviour.PassPercentage < 0
                        \/ p.Behaviour.PassPercentage > MaxPassPercentage),
                ErrPassPercentage)

\* The rules the value Validate returned reports.
ReportedRules(err) == IF err = NoError THEN {} ELSE {err.msg}

\* C10: one validation call reports every rule the payload breaks.
C10_ReportsEveryViolation ==
    vout # Pending
        => ReportedRules(vout) =
               IF vin.t = "QuestionSet" THEN BrokenQuestionSetRules(vin)
               ELSE BrokenMultiChoiceRules(vin)

(***************************************************************************)
(* C11-C15: what the two Validate functions accept and reject.             *)
(***************************************************************************)
InRange(p) == 0 <= p /\ p <= 100

RangesOrdered(ranges) ==
    \A i \in 1..Len(ranges) : ranges[i].From <= ranges[i].To

\* Every rule of MultiChoiceParams.Validate but the pass percentage holds.
MultiChoiceValidButPercentage(p) ==
    /\ p.Question # ""
    /\ Len(p.Answers) >= 1
    /\ \A i \in 1..Len(p.Answers) : p.Answers[i].Text # ""
    /\ \E i \in 1..Len(p.Answers) : p.Answers[i].Correct
    /\ p.Behaviour # Nil
    /\ p.Behaviour.Type \in {"", "auto", "multi", "single"}

NamesPassPercentage(err) ==
    err.t = "error" /\ err.msg = "pass percentage must be between 0 and 100"

\* C12: a payload that is valid but for a pass percentage of 150 gets one
\* error, the one about the pass percentage.
C12_OnlyPassPercentageReported ==
    vout # Pending =>
        /\ (vin.t = "QuestionSet" /\ Len(vin.Questions) > 0
            /\ RangesOrdered(vin.OverallFeedback) /\ vin.PassPercentage = 150)
               => NamesPassPercentage(vout)
        /\ (vin.t = "MultiChoiceParams" /\ MultiChoiceValidButPercentage(vin)
            /\ vin.Behaviour.PassPercentage = 150)
               => NamesPassPercentage(vout)

C12_Witness ==
    /\ vin.t = "MultiChoiceParams"
    /\ MultiChoiceValidButPercentage(vin)
    /\ vin.Behaviour.Type = "single"
    /\ vin.Behaviour.PassPercentage = 150
    /\ vout = ErrPassPercentage

\* C13: MultiChoiceParams.Validate fails for every payload whose overall
\* feedback holds a range with from > to.
C13_MultiChoiceFeedbackRangeRule ==
    (vin.t = "MultiChoiceParams" /\ vout # Pending
     /\ vin.OverallFeedback # Nil
     /\ ~RangesOrdered(vin.OverallFeedback.OverallFeedback))
        => vout # NoError

\* The six conditions MultiChoiceParams.Validate is said to reject.
MultiChoiceInvalid(p) ==
    \/ p.Question = ""
    \/ Len(p.Answers) = 0
    \/ \E i \in 1..Len(p.Answers) : p.Answers[i].Text = ""
    \/ \A i \in 1..Len(p.Answers) : ~p.Answers[i].Correct
    \/ p.Behaviour # Nil /\ p.Behaviour.Type \notin {"", "auto", "multi", "single"}
    \/ p.Behaviour # Nil /\ ~InRange(p.Behaviour.PassPercentage)

C15_AtLeastTwoAnswers ==
    (vin.t = "MultiChoiceParams" /\ vout # Pending /\ Len(vin.Answers) < 2)
        => vout # NoError

(***************************************************************************)
(* Semantics fields.  Field.Options is an interface{}: nil, the            *)
(* []interface{} that json.Unmarshal builds, a []string or []SelectOption  *)
(* assigned directly, or any other value.  A slice is a record with its    *)
(* element type, its elements and whether it is the nil slice.             *)
(***************************************************************************)
MaxOptions == 2

Slice(type, elems) == [t |-> type, isNil |-> FALSE, v |-> elems]

NilSlice(type) == [t |-> type, isNil |-> TRUE, v |-> <<>>]

GoString(s) == [t |-> "string", v |-> s]

GoNumber(n) == [t |-> "float64", v |-> n]

GoMap(m) == [t |-> "map", v |-> m]

SelectOption(value, label) == [Value |-> value, Label |-> label]

\* The loop of GetLibraryOptions that skips an element that is no string.
RECURSIVE LibraryOptionsLoop_Skip(_, _, _)
LibraryOptionsLoop_Skip(optionsSlice, i, result) ==
    IF i > Len(optionsSlice) THEN Slice("[]string", result)
    ELSE IF optionsSlice[i].t = "string"
    THEN LibraryOptionsLoop_Skip(optionsSlice, i + 1,
                                 Append(result, optionsSlice[i].v))
    ELSE LibraryOptionsLoop_Skip(optionsSlice, i + 1, result)

\* The loop of GetLibraryOptions over optionsSlice from index i on.
RECURSIVE LibraryOptionsLoop(_, _, _)
LibraryOptionsLoop(optionsSlice, i, result) ==
    IF i > Len(optionsSlice) THEN Slice("[]string", result)
    ELSE IF optionsSlice[i].t = "string"
    THEN LibraryOptionsLoop(optionsSlice, i + 1, Append(result, optionsSlice[i].v))
    ELSE NilSlice("[]string")

\* Field.GetLibraryOptions
GetLibraryOptions(fld) ==
    IF fld.Options = Nil THEN NilSlice("[]string")
    ELSE IF fld.Options.t = "[]interface{}"
    THEN LibraryOptionsLoop(fld.Options.v, 1, <<>>)
    ELSE IF fld.Options.t = "[]string" THEN fld.Options
    ELSE NilSlice("[]string")

\* One element of the loop of GetSelectOptions: the SelectOption decoded from
\* the map, or Nil where the code returns nil.
DecodeSelectOption(optMap) ==
    IF "value" \in DOMAIN optMap /\ optMap["value"].t # "string" THEN Nil
    ELSE IF "label" \in DOMAIN optMap /\ optMap["label"].t # "string" THEN Nil
    ELSE SelectOption(IF "value" \in DOMAIN optMap THEN optMap["value"].v ELSE "",
                      IF "label" \in DOMAIN optMap THEN optMap["label"].v ELSE "")

\* The loop of GetSelectOptions that puts each decoded option in front.
RECURSIVE SelectOptionsLoop_Prepend(_, _, _)
SelectOptionsLoop_Prepend(optionsSlice, i, result) ==
    IF i > Len(optionsSlice) THEN Slice("[]SelectOption", result)
    ELSE IF optionsSlice[i].t # "map" THEN NilSlice("[]SelectOption")
    ELSE IF DecodeSelectOption(optionsSlice[i].v) = Nil
    THEN NilSlice("[]SelectOption")
    ELSE SelectOptionsLoop_Prepend(optionsSlice, i + 1,
             <<DecodeSelectOption(optionsSlice[i].v)>> \o result)

\* The loop of GetSelectOptions over optionsSlice from index i on.
RECURSIVE SelectOptionsLoop(_, _, _)
SelectOptionsLoop(optionsSlice, i, result) ==
    IF i > Len(optionsSlice) THEN Slice("[]SelectOption", result)
    ELSE IF optionsSlice[i].t # "map" THEN NilSlice("[]SelectOption")
    ELSE IF DecodeSelectOption(optionsSlice[i].v) = Nil
    THEN NilSlice("[]SelectOption")
    ELSE SelectOptionsLoop(optionsSlice, i + 1,
             Append(result, DecodeSelectOption(optionsSlice[i].v)))

\* Field.GetSelectOptions
GetSelectOptions(fld) ==
    IF fld.Options = Nil THEN NilSlice("[]SelectOption")
    ELSE IF fld.Options.t = "[]interface{}"
    THEN SelectOptionsLoop(fld.Options.v, 1, <<>>)
    ELSE IF fld.Options.t = "[]SelectOption" THEN fld.Options
    ELSE NilSlice("[]SelectOption")

\* The fields the accessors are called on.
LibraryStrings == {"H5P.MultiChoice 1.16", "H5P.TrueFalse 1.8"}

OptionKeys == {"value", "label"}

OptionKeyValues == {GoString("1"), GoString("One"), GoNumber(1)}

OptionMaps == UNION {[keys -> OptionKeyValues] : keys \in SUBSET OptionKeys}

OptionElements ==
    {GoString(s) : s \in LibraryStrings}
        \cup {GoMap(m) : m \in OptionMaps}
        \cup {GoNumber(1)}

SelectOptions == {SelectOption("1", "One"), SelectOption("2", "")}

OptionsValues ==
    {Nil, GoString("H5P.MultiChoice 1.16")}
        \cup {Slice("[]interface{}", s) : s \in SeqsUpTo(OptionElements, MaxOptions)}
        \cup {Slice("[]string", s) : s \in SeqsUpTo(LibraryStrings, MaxOptions)}
        \cup {Slice("[]SelectOption", s) : s \in SeqsUpTo(SelectOptions, MaxOptions)}
        \cup {NilSlice("[]interface{}"), NilSlice("[]string"),
              NilSlice("[]SelectOption")}

FieldTypes == {"select", "library", "text"}

Fields == [t : {"Field"}, Type : FieldTypes, Options : OptionsValues]

\* No package is written or read, nothing is validated.
PackageIdle ==
    /\ pc = "idle"
    /\ pkg = NewH5PPackage
    /\ disk = NoFile
    /\ wlib = 1
    /\ wfiles = {}
    /\ written = <<>>
    /\ failed = Nil
    /\ cres = Pending
    /\ closed = <<>>
    /\ lidx = 1
    /\ lpkg = Nil
    /\ lres = Pending
    /\ orig = Nil
    /\ archive1 = <<>>
    /\ round = 0

InitOptions ==
    /\ PackageIdle
    /\ vin = Nil
    /\ vout = Nil
    /\ field \in Fields
    /\ opts = [library |-> Pending, select |-> Pending]
    /\ builder = Nil
    /\ calls = <<>>
    /\ bres = Nil
    /\ builtAt = 0
    /\ jsonData = Nil
    /\ restored = Nil

ReadLibraryOptions ==
    /\ opts.library = Pending
    /\ opts' = [opts EXCEPT !.library = GetLibraryOptions(field)]
    /\ UNCHANGED <<pkgVars, valVars, field, bldVars>>

ReadSelectOptions ==
    /\ opts.select = Pending
    /\ opts' = [opts EXCEPT !.select = GetSelectOptions(field)]
    /\ UNCHANGED <<pkgVars, valVars, field, bldVars>>

NextOptions ==
    \/ ReadLibraryOptions
    \/ ReadSelectOptions

SpecOptions == InitOptions /\ [][NextOptions]_vars

(***************************************************************************)
(* C16-C18: the options accessors.                                         *)
(***************************************************************************)
\* C16: on a field of type "select" GetLibraryOptions returns no list of
\* strings, and on a field of type "library" GetSelectOptions returns no list
\* of value/label pairs, whatever Options holds (a list with elements is
\* what is counted as such output here).
C16_AccessorsRespectTypeTag ==
    /\ (field.Type = "select" /\ opts.library # Pending)
           => ~(~opts.library.isNil /\ Len(opts.library.v) > 0)
    /\ (field.Type = "library" /\ opts.select # Pending)
           => ~(~opts.select.isNil /\ Len(opts.select.v) > 0)

\* An element GetLibraryOptions cannot take: anything but a string.
NotLibraryShaped(e) == e.t # "string"

\* An element GetSelectOptions cannot take: anything but an object, or an
\* object whose value or label is not a string.
NotSelectShaped(e) ==
    \/ e.t # "map"
    \/ \E k \in DOMAIN e.v \cap {"value", "label"} : e.v[k].t # "string"

IsGenericList(o) == o # Nil /\ o.t = "[]interface{}"

\* C17: a list with an element of the wrong shape makes the accessor return
\* nil, never the elements that conform.
C17_NoPartialDecoding ==
    /\ (opts.library # Pending /\ IsGenericList(field.Options)
        /\ \E i \in 1..Len(field.Options.v) : NotLibraryShaped(field.Options.v[i]))
           => opts.library = NilSlice("[]string")
    /\ (opts.select # Pending /\ IsGenericList(field.Options)
        /\ \E i \in 1..Len(field.Options.v) : NotSelectShaped(field.Options.v[i]))
           => opts.select = NilSlice("[]SelectOption")

C17_Witness ==
    /\ IsGenericList(field.Options)
    /\ Len(field.Options.v) = 2
    /\ field.Options.v[1].t = "string"
    /\ field.Options.v[2].t = "map"
    /\ opts.library = NilSlice("[]string")
    /\ opts.select = NilSlice("[]SelectOption")

IsStringList(o) ==
    /\ o # Nil
    /\ o.t \in {"[]interface{}", "[]string"}
    /\ ~o.isNil
    /\ Len(o.v) > 0
    /\ o.t = "[]interface{}" => \A i \in 1..Len(o.v) : o.v[i].t = "string"

StringsOf(o) ==
    [i \in 1..Len(o.v) |-> IF o.t = "[]string" THEN o.v[i] ELSE o.v[i].v]

IsPairList(o) ==
    /\ o # Nil
    /\ o.t \in {"[]interface{}", "[]SelectOption"}
    /\ ~o.isNil
    /\ Len(o.v) > 0
    /\ o.t = "[]interface{}" =>
           \A i \in 1..Len(o.v) :
               /\ o.v[i].t = "map"
               /\ DOMAIN o.v[i].v = {"value", "label"}
               /\ \A k \in DOMAIN o.v[i].v : o.v[i].v[k].t = "string"

PairsOf(o) ==
    [i \in 1..Len(o.v) |->
        IF o.t = "[]SelectOption" THEN o.v[i]
        ELSE [Value |-> o.v[i].v["value"].v, Label |-> o.v[i].v["label"].v]]

\* C18: a non-empty list of strings comes back from GetLibraryOptions as it
\* is and gives nil from GetSelectOptions; a non-empty list of objects with
\* string value and label comes back from GetSelectOptions as the same pairs
\* in the same order and gives nil from GetLibraryOptions.
C18_ListsDecodeExactly ==
    /\ (IsStringList(field.Options) /\ opts.library # Pending)
           => (~opts.library.isNil /\ opts.library.v = StringsOf(field.Options))
    /\ (IsStringList(field.Options) /\ opts.select # Pending)
           => opts.select.isNil
    /\ (IsPairList(field.Options) /\ opts.select # Pending)
           => (~opts.select.isNil /\ opts.select.v = PairsOf(field.Options))
    /\ (IsPairList(field.Options) /\ opts.library # Pending)
           => opts.library.isNil

C18_Witness ==
    /\ field.Type = "library"
    /\ field.Options = Slice("[]interface{}", <<GoString("H5P.MultiChoice 1.16"),
                                                GoString("H5P.TrueFalse 1.8")>>)
    /\ opts.library = Slice("[]string", <<"H5P.MultiChoice 1.16",
                                          "H5P.TrueFalse 1.8">>)
    /\ opts.select = NilSlice("[]SelectOption")

(***************************************************************************)
(* The question set builder and the JSON form of a question set.  The      *)
(* builder holds a pointer to one QuestionSet; every setter writes through *)
(* it and Build returns that same pointer.                                 *)
(***************************************************************************)
MaxCalls == 3

JNum(n) == [t |-> "num", v |-> n]

JBool(v) == [t |-> "bool", v |-> v]

\* A Go string that holds a byte which is not valid UTF-8, and the string
\* encoding/json writes for it: the byte replaced by U+FFFD.
InvalidUTF8Title == "Quiz<0xFF>"

ReplacedTitle == "Quiz<U+FFFD>"

\* The coercion of a string to valid UTF-8 that json.Marshal applies.
ToValidUTF8(s) == IF s = InvalidUTF8Title THEN ReplacedTitle ELSE s

MarshalString(s) == JStr(ToValidUTF8(s))

MultiChoiceLibrary == "H5P.MultiChoice 1.16"

\* NewQuestionSetBuilder: the QuestionSet the builder points to.  A slice of
\* a QuestionSet is kept as the sequence of its elements.
NewQuestionSet ==
    [t |-> "QuestionSet", Title |-> "", PassPercentage |-> 0,
     Questions |-> <<>>, OverallFeedback |-> <<>>]

\* The pointer b.questionSet, and the value it points to.
QuestionSetPtr == [t |-> "ptr", to |-> "questionSet"]

Answer(text, correct, feedback) ==
    [Text |-> text, Correct |-> correct, Feedback |-> feedback]

\* The conversion of the legacy answers in AddMultipleChoiceQuestion.
SchemaAnswers(answers) ==
    [i \in 1..Len(answers) |->
        [Text |-> answers[i].Text, Correct |-> answers[i].Correct,
         TipsAndFeedback |-> [ChosenFeedback |-> answers[i].Feedback]]]

MultiChoiceQuestion(question, answers) ==
    [Library |-> MultiChoiceLibrary,
     Params |-> [t |-> "MultiChoiceParams", Question |-> question,
                 Answers |-> SchemaAnswers(answers),
                 OverallFeedback |-> Nil, Behaviour |-> Nil]]

\* What a *QuestionSet points to: the builder's QuestionSet, or an object of
\* its own whose value the pointer carries.
Deref(ptr) == IF ptr = QuestionSetPtr THEN builder ELSE ptr.val

\* QuestionSetBuilder.Build that returns a pointer to a copy of the set.
BuildResult_Copy(qs) ==
    IF Len(qs.Questions) = 0
    THEN [qs |-> Nil, err |-> ErrNoQuestions]
    ELSE [qs |-> [t |-> "ptr", to |-> "copy", val |-> qs], err |-> NoError]

\* QuestionSetBuilder.Build that also refuses a set of one question.
BuildResult_NeedsTwo(qs) ==
    IF Len(qs.Questions) <= 1
    THEN [qs |-> Nil, err |-> ErrNoQuestions]
    ELSE [qs |-> QuestionSetPtr, err |-> NoError]

\* QuestionSetBuilder.Build
BuildResult(qs) ==
    IF Len(qs.Questions) = 0
    THEN [qs |-> Nil, err |-> ErrNoQuestions]
    ELSE [qs |-> QuestionSetPtr, err |-> NoError]

(***************************************************************************)
(* encoding/json on QuestionSet.  Fields tagged omitempty are left out     *)
(* when they hold the zero value; "questions", "library", "params",        *)
(* "from", "to" and "text" are always written.                             *)
(***************************************************************************)
MarshalAnswerOption(a) ==
    JObj([k \in {"text", "correct", "tipsAndFeedback"} |->
            CASE k = "text" -> MarshalString(a.Text)
              [] k = "correct" -> JBool(a.Correct)
              [] k = "tipsAndFeedback" ->
                     JObj(IF a.TipsAndFeedback.ChosenFeedback = ""
                          THEN EmptyObject
                          ELSE [chosenFeedback |->
                                   MarshalString(a.TipsAndFeedback.ChosenFeedback)])])

MarshalMultiChoiceParams(p) ==
    JObj([k \in {"question", "answers"} |->
            CASE k = "question" -> MarshalString(p.Question)
              [] k = "answers" ->
                     JArr([i \in 1..Len(p.Answers) |->
                              MarshalAnswerOption(p.Answers[i])])])

MarshalQuestion(q) ==
    JObj([k \in {"library", "params"} |->
            CASE k = "library" -> MarshalString(q.Library)
              [] k = "params" -> IF q.Params = Nil THEN JNull
                                 ELSE MarshalMultiChoiceParams(q.Params)])

MarshalFeedbackRange(r) ==
    JObj([k \in {"from", "to", "text"} |->
            CASE k = "from" -> JNum(r.From)
              [] k = "to" -> JNum(r.To)
              [] k = "text" -> MarshalString(r.Text)])

\* The keys of the object when the title is never written.
QuestionSetKeys_NoTitle(qs) ==
    {"questions"}
        \cup (IF qs.PassPercentage # 0 THEN {"passPercentage"} ELSE {})
        \cup (IF Len(qs.OverallFeedback) > 0 THEN {"overallFeedback"} ELSE {})

\* The keys json.Marshal writes for a QuestionSet.
QuestionSetKeys(qs) ==
    {"questions"}
        \cup (IF qs.PassPercentage # 0 THEN {"passPercentage"} ELSE {})
        \cup (IF qs.Title # "" THEN {"title"} ELSE {})
        \cup (IF Len(qs.OverallFeedback) > 0 THEN {"overallFeedback"} ELSE {})

\* QuestionSet.ToJSON
ToJSON(qs) ==
    JsonBytes(JObj([k \in QuestionSetKeys(qs) |->
        CASE k = "questions" ->
                 JArr([i \in 1..Len(qs.Questions) |->
                          MarshalQuestion(qs.Questions[i])])
          [] k = "passPercentage" -> JNum(qs.PassPercentage)
          [] k = "title" -> MarshalString(qs.Title)
          [] k = "overallFeedback" ->
                 JArr([i \in 1..Len(qs.OverallFeedback) |->
                          MarshalFeedbackRange(qs.OverallFeedback[i])])]))

\* An int field of a struct read from object f.
IntField(f, key) ==
    IF key \notin DOMAIN f THEN [err |-> NoError, val |-> 0]
    ELSE IF f[key].t = "null" THEN [err |-> NoError, val |-> 0]
    ELSE IF f[key].t = "num" THEN [err |-> NoError, val |-> f[key].v]
    ELSE [err |-> Error("json: cannot unmarshal into Go struct field"), val |-> 0]

\* One element of "questions" read into a Question: Params is an
\* interface{} and takes any document.
UnmarshalQuestion(doc) ==
    IF doc.t = "null" THEN [err |-> NoError, val |-> [Library |-> "", Params |-> Nil]]
    ELSE IF doc.t # "obj"
    THEN [err |-> Error("json: cannot unmarshal into Go value"),
          val |-> [Library |-> "", Params |-> Nil]]
    ELSE LET library == StringField(doc.v, "library")
         IN [err |-> library.err,
             val |-> [Library |-> library.val,
                      Params |-> IF "params" \in DOMAIN doc.v
                                    /\ doc.v["params"].t # "null"
                                 THEN Iface(doc.v["params"])
                                 ELSE Nil]]

\* One element of "overallFeedback" read into a FeedbackRange.
UnmarshalFeedbackRange(doc) ==
    IF doc.t = "null"
    THEN [err |-> NoError, val |-> [From |-> 0, To |-> 0, Text |-> ""]]
    ELSE IF doc.t # "obj"
    THEN [err |-> Error("json: cannot unmarshal into Go value"),
          val |-> [From |-> 0, To |-> 0, Text |-> ""]]
    ELSE LET from == IntField(doc.v, "from")
             to == IntField(doc.v, "to")
             text == StringField(doc.v, "text")
         IN [err |-> IF from.err # NoError THEN from.err
                     ELSE IF to.err # NoError THEN to.err ELSE text.err,
             val |-> [From |-> from.val, To |-> to.val, Text |-> text.val]]

\* A slice field of a struct read from object f with the decoder of its
\* elements: the error of the first element that fails, and the elements.
SliceField(f, key, unmarshal(_)) ==
    IF key \notin DOMAIN f THEN [err |-> NoError, val |-> <<>>]
    ELSE IF f[key].t = "null" THEN [err |-> NoError, val |-> <<>>]
    ELSE IF f[key].t # "arr"
    THEN [err |-> Error("json: cannot unmarshal into Go struct field"), val |-> <<>>]
    ELSE LET elems == [i \in 1..Len(f[key].v) |-> unmarshal(f[key].v[i])]
             bad == {i \in 1..Len(elems) : elems[i].err # NoError}
         IN [err |-> IF bad = {} THEN NoError
                     ELSE elems[CHOOSE i \in bad : \A j \in bad : i <= j].err,
             val |-> [i \in 1..Len(elems) |-> elems[i].val]]

\* FromJSON: (nil, err) when json.Unmarshal fails, else the QuestionSet read.
FromJSON(data) ==
    IF data.kind # "json" THEN [qs |-> Nil, err |-> Error("json: syntax error")]
    ELSE IF data.doc.t = "null" THEN [qs |-> NewQuestionSet, err |-> NoError]
    ELSE IF data.doc.t # "obj"
    THEN [qs |-> Nil, err |-> Error("json: cannot unmarshal into Go value")]
    ELSE LET title == StringField(data.doc.v, "title")
             percentage == IntField(data.doc.v, "passPercentage")
             questions == SliceField(data.doc.v, "questions", UnmarshalQuestion)
             feedback == SliceField(data.doc.v, "overallFeedback",
                                    UnmarshalFeedbackRange)
             err == IF title.err # NoError THEN title.err
                    ELSE IF percentage.err # NoError THEN percentage.err
                    ELSE IF questions.err # NoError THEN questions.err
                    ELSE feedback.err
         IN IF err # NoError
            THEN [qs |-> Nil, err |-> err]
            ELSE [qs |-> [t |-> "QuestionSet", Title |-> title.val,
                          PassPercentage |-> percentage.val,
                          Questions |-> questions.val,
                          OverallFeedback |-> feedback.val],
                  err |-> NoError]

\* The arguments of the builder calls.
Titles == {"", "JSON Test", InvalidUTF8Title}

BuilderPercentages == {0, 70}

AnswerLists ==
    {<<>>, <<Answer("Answer 1", TRUE, ""), Answer("Answer 2", FALSE, "No")>>}

QuestionTexts == {"Test question?"}

BuilderFeedback ==
    {<<>>, <<[From |-> 0, To |-> 50, Text |-> "Try again"]>>}

InitBuilder ==
    /\ PackageIdle
    /\ vin = Nil
    /\ vout = Nil
    /\ field = Nil
    /\ opts = Nil
    /\ builder = NewQuestionSet
    /\ calls = <<>>
    /\ bres = Pending
    /\ builtAt = 0
    /\ jsonData = Pending
    /\ restored = Pending

\* The builder is in use: the calls are bounded, and the set is not changed
\* once it has been serialised.
BuilderOpen == Len(calls) < MaxCalls /\ jsonData = Pending

SetTitle ==
    /\ BuilderOpen
    /\ \E title \in Titles :
           /\ builder' = [builder EXCEPT !.Title = title]
           /\ calls' = Append(calls, [op |-> "SetTitle", arg |-> title])
    /\ UNCHANGED <<pkgVars, valVars, optVars, bres, builtAt, jsonData, restored>>

SetPassPercentage ==
    /\ BuilderOpen
    /\ \E percentage \in BuilderPercentages :
           /\ builder' = [builder EXCEPT !.PassPercentage = percentage]
           /\ calls' = Append(calls, [op |-> "SetPassPercentage",
                                      arg |-> percentage])
    /\ UNCHANGED <<pkgVars, valVars, optVars, bres, builtAt, jsonData, restored>>

AddMultipleChoiceQuestion ==
    /\ BuilderOpen
    /\ \E question \in QuestionTexts, answers \in AnswerLists :
           /\ builder' = [builder EXCEPT !.Questions =
                              Append(@, MultiChoiceQuestion(question, answers))]
           /\ calls' = Append(calls, [op |-> "AddMultipleChoiceQuestion",
                                      arg |-> <<question, answers>>])
    /\ UNCHANGED <<pkgVars, valVars, optVars, bres, builtAt, jsonData, restored>>

\* AddOverallFeedback that appends the ranges to those already set.
AddOverallFeedback_Append ==
    /\ BuilderOpen
    /\ \E ranges \in BuilderFeedback :
           /\ builder' = [builder EXCEPT !.OverallFeedback = @ \o ranges]
           /\ calls' = Append(calls, [op |-> "AddOverallFeedback",
                                      arg |-> ranges])
    /\ UNCHANGED <<pkgVars, valVars, optVars, bres, builtAt, jsonData, restored>>

AddOverallFeedback ==
    /\ BuilderOpen
    /\ \E ranges \in BuilderFeedback :
           /\ builder' = [builder EXCEPT !.OverallFeedback = ranges]
           /\ calls' = Append(calls, [op |-> "AddOverallFeedback",
                                      arg |-> ranges])
    /\ UNCHANGED <<pkgVars, valVars, optVars, bres, builtAt, jsonData, restored>>

Build ==
    /\ jsonData = Pending
    /\ bres' = BuildResult(builder)
    /\ builtAt' = Len(calls)
    /\ UNCHANGED <<pkgVars, valVars, optVars, builder, calls, jsonData, restored>>

\* qs.ToJSON() on the question set Build returned.
CallToJSON ==
    /\ bres # Pending
    /\ bres.qs = QuestionSetPtr
    /\ jsonData = Pending
    /\ jsonData' = [data |-> ToJSON(builder), err |-> NoError]
    /\ UNCHANGED <<pkgVars, valVars, optVars, builder, calls, bres, builtAt, restored>>

CallFromJSON ==
    /\ jsonData # Pending
    /\ restored = Pending
    /\ restored' = FromJSON(jsonData.data)
    /\ UNCHANGED <<pkgVars, valVars, optVars, builder, calls, bres, builtAt, jsonData>>

NextBuilder ==
    \/ SetTitle
    \/ SetPassPercentage
    \/ AddMultipleChoiceQuestion
    \/ AddOverallFeedback
    \/ Build
    \/ CallToJSON
    \/ CallFromJSON

SpecBuilder == InitBuilder /\ [][NextBuilder]_vars

(***************************************************************************)
(* C19-C20: the builder and the JSON round trip of what it builds.         *)
(***************************************************************************)
Libraries_Of(qs) == [i \in 1..Len(qs.Questions) |-> qs.Questions[i].Library]

\* What the round trip is said to keep.
SameQuestionSet(a, c) ==
    /\ a.Title = c.Title
    /\ a.PassPercentage = c.PassPercentage
    /\ Len(a.Questions) = Len(c.Questions)
    /\ Libraries_Of(a) = Libraries_Of(c)

CallsOf(op) == SelectSeq(calls, LAMBDA c : c.op = op)

LastArg(op, default) ==
    IF CallsOf(op) = <<>> THEN default ELSE CallsOf(op)[Len(CallsOf(op))].arg

CarriesCalls(qs) ==
    /\ qs.Title = LastArg("SetTitle", "")
    /\ qs.PassPercentage = LastArg("SetPassPercentage", 0)
    /\ Len(qs.Questions) = Len(CallsOf("AddMultipleChoiceQuestion"))
    /\ \A i \in 1..Len(qs.Questions) :
           /\ qs.Questions[i].Library = "H5P.MultiChoice 1.16"
           /\ qs.Questions[i].Params.Question =
                  CallsOf("AddMultipleChoiceQuestion")[i].arg[1]

C21_AddLibraryAppends ==
    [][(Building /\ pkg'.Libraries # pkg.Libraries)
           => /\ Len(pkg'.Libraries) = Len(pkg.Libraries) + 1
              /\ SubSeq(pkg'.Libraries, 1, Len(pkg.Libraries)) = pkg.Libraries
              /\ pkg'.Libraries[Len(pkg'.Libraries)] \in Libraries]_vars

C21_Witness ==
    /\ Building
    /\ Len(pkg.Libraries) = 2
    /\ pkg.Libraries[1].MachineName = pkg.Libraries[2].MachineName
    /\ pkg.Libraries[1] # pkg.Libraries[2]

\* The greatest index of a library of the given machine name.
LastNamed(p, name) ==
    CHOOSE i \in 1..Len(p.Libraries) :
        /\ p.Libraries[i].MachineName = name
        /\ \A j \in (i + 1)..Len(p.Libraries) : p.Libraries[j].MachineName # name

NamedIn(p, name) ==
    {i \in 1..Len(p.Libraries) : p.Libraries[i].MachineName = name}

\* C22: when a package with two libraries of one machine name is written and
\* read back, the loaded package has exactly one library of that name; its
\* definition and semantics are those of the library added last, and so are
\* the bytes of every path both libraries hold.
C22_LastWriteWins ==
    (Loaded /\ WroteFirst /\ lres.err = NoError)
        => \A i, j \in 1..Len(orig.Libraries) :
               (i < j /\ orig.Libraries[i].MachineName = orig.Libraries[j].MachineName)
                   => LET name == orig.Libraries[j].MachineName
                          last == orig.Libraries[LastNamed(orig, name)]
                      IN /\ Cardinality(NamedIn(lres.pkg, name)) = 1
                         /\ \A k \in NamedIn(lres.pkg, name) :
                                LET got == lres.pkg.Libraries[k]
                                IN /\ SameJSON(got.Definition, last.Definition,
                                               MarshalDefinition)
                                   /\ SameJSON(got.Semantics, last.Semantics,
                                               MarshalIface)
                                   /\ \A path \in DOMAIN orig.Libraries[i].Files
                                                    \cap DOMAIN last.Files :
                                          /\ path \in DOMAIN got.Files
                                          /\ got.Files[path] = last.Files[path]

\* A key of a Files map that is, or ends at a directory boundary in,
\* "library.json" or "semantics.json".
IsDefinitionPath(k) ==
    \/ k \in {<<"library.json">>, <<"semantics.json">>}
    \/ HasSuffix(k, <<"/", "library.json">>)
    \/ HasSuffix(k, <<"/", "semantics.json">>)

NoDefinitionPathInFiles(p) ==
    \A i \in 1..Len(p.Libraries) :
        \A k \in DOMAIN p.Libraries[i].Files : ~IsDefinitionPath(k)

\* The Files maps of the libraries of a package, by machine name, of the
\* libraries that hold a file.
FilesByName(p) ==
    {<<p.Libraries[i].MachineName, p.Libraries[i].Files>> :
        i \in {k \in 1..Len(p.Libraries) : DOMAIN p.Libraries[k].Files # {}}}

\* C23: every step of the load loop handles its entry by the first rule that
\* matches: h5p.json and content/content.json leave the libraries alone,
\* */library.json and */semantics.json leave the metadata, the content and
\* every Files map alone, and so no Files map ever gets a key that is or
\* ends in library.json or semantics.json at a directory boundary.
C23_FirstMatchingRule ==
    [][(pc = "load" /\ lidx' = lidx + 1)
           => LET name == disk.entries[lidx].name
              IN /\ name = H5PJsonName
                     => (lpkg'.Libraries = lpkg.Libraries
                         /\ lpkg'.Content = lpkg.Content)
                 /\ name = ContentJsonName
                     => (lpkg'.Libraries = lpkg.Libraries
                         /\ lpkg'.PackageDefinition = lpkg.PackageDefinition)
                 /\ (HasSuffix(name, <<"/", "library.json">>)
                     \/ HasSuffix(name, <<"/", "semantics.json">>))
                     => (lpkg'.PackageDefinition = lpkg.PackageDefinition
                         /\ lpkg'.Content = lpkg.Content
                         /\ FilesByName(lpkg') = FilesByName(lpkg))
                 /\ NoDefinitionPathInFiles(lpkg')]_vars

C23_Witness ==
    /\ Loaded
    /\ lres.err = NoError
    /\ Len(disk.entries) = 2
    /\ disk.entries[1].name = <<"H5P.", "A", "/", "sub", "/", "library.json">>
    /\ disk.entries[2].name = H5PJsonName
    /\ Len(lres.pkg.Libraries) = 1
    /\ lres.pkg.PackageDefinition # Nil

\* C26: an archive that CreateZipFile wrote, returning nil, and that opens
\* is loaded without error, whatever paths and bytes the Files maps hold.
C26_WrittenArchiveLoads ==
    (Loaded /\ WroteFirst) => lres.err = NoError

\* C30: once the file is created, every way out of writeToZip leads to the
\* close of the zip writer and then to the close of the file, in this order,
\* and neither close changes what CreateZipFile returns, whether the close
\* fails or not.
C30_CloseOrder ==
    [][/\ (pc \in WritingStages /\ pc' \notin WritingStages)
              => (pc' = "closeZip" /\ closed' = <<>> /\ cres' # Pending)
       /\ pc \in {"closeZip", "closeFile"} => cres' = cres
       /\ pc = "closeZip" => (pc' = "closeFile" /\ closed' = <<"zipWriter">>)
       /\ pc = "closeFile" => (pc' = "idle" /\ closed' = <<"zipWriter", "file">>)]_vars

C30_Witness ==
    /\ pc = "idle"
    /\ round = 1
    /\ failed # Nil
    /\ cres # NoError
    /\ disk.exists
    /\ ~disk.finalized
    /\ closed = <<"zipWriter", "file">>

(***************************************************************************)
(* C24, C29: more about the options accessors.                             *)
(***************************************************************************)
\* An object with a string under "value" and a string under "label".
ConformingOption(e) ==
    /\ e.t = "map"
    /\ {"value", "label"} \subseteq DOMAIN e.v
    /\ e.v["value"].t = "string"
    /\ e.v["label"].t = "string"

\* C24: GetSelectOptions returns nil for every list with an element that is
\* not an object holding both a string "value" and a string "label".
C24_SelectOptionsNeedBothKeys ==
    (opts.select # Pending /\ IsGenericList(field.Options)
     /\ \E i \in 1..Len(field.Options.v) : ~ConformingOption(field.Options.v[i]))
        => opts.select.isNil

\* C29: for every Options value at most one of the two accessors returns a
\* result that is not nil.
C29_AtMostOneAccessorNonNil ==
    (opts.select # Pending /\ opts.library # Pending)
        => (opts.select.isNil \/ opts.library.isNil)

(***************************************************************************)
(* C25: the order of the rules of validation.                              *)
(***************************************************************************)
Rule(fails, err) == [fails |-> fails, err |-> err]

\* The error of the first rule of the list that fails, nil when none does.
FirstFailing(rules) ==
    IF \A i \in 1..Len(rules) : ~rules[i].fails THEN NoError
    ELSE rules[CHOOSE i \in 1..Len(rules) :
                   rules[i].fails /\ \A j \in 1..(i - 1) : ~rules[j].fails].err

QuestionSetRuleOrder(qs) ==
    <<Rule(Len(qs.Questions) = 0, ErrNoQuestions),
      Rule(~InRange(qs.PassPercentage), ErrPassPercentage)>>
        \o [i \in 1..Len(qs.OverallFeedback) |->
               Rule(qs.OverallFeedback[i].From > qs.OverallFeedback[i].To,
                    ErrFeedbackRange(i - 1))]

MultiChoiceRuleOrder(p) ==
    <<Rule(p.Question = "", ErrQuestionText),
      Rule(Len(p.Answers) = 0, ErrNoAnswers)>>
        \o [i \in 1..Len(p.Answers) |-> Rule(p.Answers[i].Text = "", ErrAnswerText)]
        \o <<Rule(\A i \in 1..Len(p.Answers) : ~p.Answers[i].Correct, ErrNoCorrect),
             Rule(p.Behaviour # Nil
                  /\ p.Behaviour.Type \notin {"", "auto", "multi", "single"},
                  ErrQuestionType),
             Rule(p.Behaviour # Nil /\ ~InRange(p.Behaviour.PassPercentage),
                  ErrPassPercentage)>>

C27_BuildReturnsOwnInstance ==
    (bres # Pending /\ bres.err = NoError)
        => /\ bres.qs = QuestionSetPtr
           /\ CarriesCalls(Deref(bres.qs))
           /\ Deref(bres.qs).OverallFeedback = LastArg("AddOverallFeedback", <<>>)

C27_Witness ==
    /\ bres # Pending
    /\ bres.err = NoError
    /\ builtAt < Len(calls)
    /\ calls[Len(calls)].op = "SetTitle"
    /\ Deref(bres.qs).Title = "JSON Test"

AnswerTexts(answers) == [i \in 1..Len(answers) |-> answers[i].Text]

\* C28: Questions holds one question per AddMultipleChoiceQuestion call, in
\* call order, each of the library "H5P.MultiChoice 1.16"; OverallFeedback
\* is the argument of the last AddOverallFeedback call.
C28_QuestionsAppendFeedbackReplaces ==
    LET added == CallsOf("AddMultipleChoiceQuestion")
    IN /\ Len(builder.Questions) = Len(added)
       /\ \A i \in 1..Len(added) :
              /\ builder.Questions[i].Library = "H5P.MultiChoice 1.16"
              /\ builder.Questions[i].Params.Question = added[i].arg[1]
              /\ AnswerTexts(builder.Questions[i].Params.Answers)
                     = AnswerTexts(added[i].arg[2])
       /\ builder.OverallFeedback = LastArg("AddOverallFeedback", <<>>)

C28_Witness ==
    /\ Len(CallsOf("AddOverallFeedback")) = 2
    /\ \A i \in 1..2 : Len(CallsOf("AddOverallFeedback")[i].arg) = 1
    /\ Len(builder.OverallFeedback) = 1
    /\ Len(builder.Questions) = 1

=============================================================================
